---- MODULE Spec2Model ----
(***************************************************************************)
(* Model of src/.gamma/tokenizer/bpe_fixed.py: one MinimalBPETokenizer     *)
(* object, its train / encode / decode / save methods, and the UTF-8       *)
(* conversions str.encode('utf-8') and bytes.decode('utf-8', 'replace')    *)
(* those methods call.                                                     *)
(*                                                                         *)
(* A text is a sequence of Unicode scalar values (code points), a byte     *)
(* string a sequence of integers 0..255, a token list a sequence of ids.   *)
(* A Python dict is a function; an insertion-ordered dict that the code    *)
(* iterates (get_stats) is a sequence of <<key, value>> entries.           *)
(***************************************************************************)
EXTENDS Integers, Sequences, FiniteSets, TLC

VARIABLES
    vocab_size,   \* self.vocab_size
    vocab,        \* self.vocab   : id -> byte string
    merges,       \* self.merges  : <<id, id>> -> id
    file,         \* tokenizer/bpe_vocab.json: <<>> or <<the dict json.dump wrote>>
    pc,           \* "idle" between calls, "train" at the head of train's for
                  \* loop, "return" while a call hands its result to the caller
    tokens,       \* local of train
    next_idx,     \* local of train
    step,         \* number of iterations of train's for loop already started
    pairs,        \* local of train: the last get_stats result
    best_pair,    \* local of train: the last selected pair
    entry,        \* self.vocab / self.merges as they were when train was entered
    trained,      \* the corpora of the train calls made so far, oldest first
    ret           \* the call in progress or returning: name, argument, outcome

tokenizer_vars == <<vocab_size, vocab, merges, file, pc, tokens, next_idx, step,
                    pairs, best_pair, entry, trained, ret>>

(* src/.gamma/gateway/server.py: one GammaGateway object and the handler    *)
(* coroutines of its connections.                                          *)
VARIABLES
    clients,      \* self.clients  : set of websockets
    sessions,     \* self.sessions : session_id -> session dict
    hpc,          \* per websocket: where its handler coroutine stands
    pending,      \* per websocket: <<the reply its handler is awaiting to send>>
    sent,         \* per websocket: the replies sent to it, oldest first
    received      \* per websocket: the messages its handler was given, oldest first

gateway_vars == <<clients, sessions, hpc, pending, sent, received>>

(* src/.gamma/gateway/sessions.py: the sessions directory of a workspace   *)
(* and the SessionManager object over it.                                  *)
VARIABLES
    active_sessions,  \* self.active_sessions : session_id -> session dict
    session_files,    \* the files <session_id>.json : session_id -> session dict
    sret,             \* the last call on the SessionManager and what it returned
    scalls            \* number of add_message and update_coherence calls made

session_vars == <<active_sessions, session_files, sret, scalls>>

(* src/.gamma/auto_updater.py: MASTER_INDEX.json and the MasterIndexUpdater *)
(* over it.                                                                *)
VARIABLES
    index_file,   \* the content of MASTER_INDEX.json
    uret,         \* the last call on the MasterIndexUpdater and what it returned
    ucalls        \* number of calls made on the MasterIndexUpdater

updater_vars == <<index_file, uret, ucalls>>

(* The objects a tokenizer method does not touch.                          *)
other_objects == <<gateway_vars, session_vars, updater_vars>>

(* The objects a handler of the gateway does not touch.                    *)
outside_gateway == <<tokenizer_vars, session_vars, updater_vars>>

vars == <<tokenizer_vars, gateway_vars, session_vars, updater_vars>>

----------------------------------------------------------------------------
(* Bounds of the model.                                                    *)

MaxLen == 4         \* longest corpus / text, in characters
MaxTok == 2         \* longest hand-made token list given to decode
MaxTrains == 2      \* train calls on one tokenizer object when it is retrained
MaxRetrainLen == 3  \* longest corpus of a tokenizer that is retrained
MaxMergeLen == 4    \* longest token list handed to merge_pair by a caller
MaxWideLen == 3     \* longest corpus / text over the wider alphabet
MaxConns == 2       \* websocket connections the gateway accepts
MaxMsgs == 3        \* messages the gateway receives, all connections together
MaxSessionCalls == 3  \* add_message / update_coherence calls on the session files
MaxUpdaterCalls == 4  \* calls on the MasterIndexUpdater

(* 'a' (1 byte 61), U+00E9 (2 bytes C3 A9).                                *)
Chars == {97, 233}

(* The same and U+1F600 (4 bytes F0 9F 98 80).                             *)
WideChars == {97, 233, 128512}

(* Ids offered to decode: bytes that are valid alone (97), only as a lead  *)
(* (195) or only as a continuation (169), the first merge id, and an id    *)
(* that no training within the bounds creates.                             *)
TokIds == {97, 169, 195, 256, 300}

(* vocab_size arguments of the constructor: below, at and just above the   *)
(* 256 byte ids, a target of 300, and the default of __init__.             *)
VocabSizes == {255, 256, 257, 300, 500}

(* Arguments of a direct merge_pair call: ids of the token list and of the *)
(* pair, and new ids, of which 256 may already be in the list.             *)
MergeIds == {97, 98, 256}
MergeIdx == {256, 257}

RECURSIVE SeqsUpTo(_, _)
SeqsUpTo(S, n) ==
    IF n = 0 THEN {<<>>}
    ELSE LET shorter == SeqsUpTo(S, n - 1)
         IN  shorter \cup {Append(s, x) : s \in shorter, x \in S}

Texts == SeqsUpTo(Chars, MaxLen)
RetrainTexts == SeqsUpTo(Chars, MaxRetrainLen)
TokenLists == SeqsUpTo(TokIds, MaxTok)
WideTexts == SeqsUpTo(WideChars, MaxWideLen)

----------------------------------------------------------------------------
(* str.encode('utf-8') and bytes.decode('utf-8', errors='replace').        *)

REPLACEMENT == 65533      \* U+FFFD

Cont(b) == b \in 128..191

UTF8Char(c) ==
    IF c < 128 THEN <<c>>
    ELSE IF c < 2048 THEN <<192 + (c \div 64), 128 + (c % 64)>>
    ELSE IF c < 65536 THEN
        <<224 + (c \div 4096), 128 + ((c \div 64) % 64), 128 + (c % 64)>>
    ELSE <<240 + (c \div 262144), 128 + ((c \div 4096) % 64),
           128 + ((c \div 64) % 64), 128 + (c % 64)>>

RECURSIVE utf8_encode(_)
utf8_encode(text) ==
    IF text = <<>> THEN <<>>
    ELSE UTF8Char(Head(text)) \o utf8_encode(Tail(text))

(* The bytes allowed right after lead byte b0 (Unicode table 3-7).         *)
SecondOk(b0, b1) ==
    CASE b0 = 224 -> b1 \in 160..191
      [] b0 = 237 -> b1 \in 128..159
      [] b0 = 240 -> b1 \in 144..191
      [] b0 = 244 -> b1 \in 128..143
      [] OTHER    -> Cont(b1)

(* Number of bytes of the sequence that lead byte b0 announces; 0 when b0  *)
(* cannot start a character.                                               *)
Need(b0) ==
    IF b0 < 128 THEN 1
    ELSE IF b0 \in 194..223 THEN 2
    ELSE IF b0 \in 224..239 THEN 3
    ELSE IF b0 \in 240..244 THEN 4
    ELSE 0

(* Length of the longest well-formed prefix of a character at position i.  *)
GoodPrefix(b, i) ==
    LET n == Need(b[i])
        has(k) == i + k <= Len(b)
    IN  IF n <= 1 THEN 1
        ELSE IF ~(has(1) /\ SecondOk(b[i], b[i + 1])) THEN 1
        ELSE IF n = 2 THEN 2
        ELSE IF ~(has(2) /\ Cont(b[i + 2])) THEN 2
        ELSE IF n = 3 THEN 3
        ELSE IF ~(has(3) /\ Cont(b[i + 3])) THEN 3
        ELSE 4

CodePoint(b, i, n) ==
    CASE n = 1 -> b[i]
      [] n = 2 -> (b[i] - 192) * 64 + (b[i + 1] - 128)
      [] n = 3 -> (b[i] - 224) * 4096 + (b[i + 1] - 128) * 64 + (b[i + 2] - 128)
      [] n = 4 -> (b[i] - 240) * 262144 + (b[i + 1] - 128) * 4096
                  + (b[i + 2] - 128) * 64 + (b[i + 3] - 128)

(* errors selects the handler: "replace" puts U+FFFD for each maximal      *)
(* ill-formed run.                                                         *)
RECURSIVE utf8_decode_from(_, _)
utf8_decode_from(b, i) ==
    IF i > Len(b) THEN <<>>
    ELSE LET n == Need(b[i])
             g == GoodPrefix(b, i)
         IN  IF n > 0 /\ g = n
             THEN <<CodePoint(b, i, n)>> \o utf8_decode_from(b, i + n)
             ELSE <<REPLACEMENT>> \o utf8_decode_from(b, i + g)

(* Variant: errors='ignore', an ill-formed run is dropped.                 *)
RECURSIVE utf8_decode_ignore_from(_, _)
utf8_decode_ignore_from(b, i) ==
    IF i > Len(b) THEN <<>>
    ELSE LET n == Need(b[i])
             g == GoodPrefix(b, i)
         IN  IF n > 0 /\ g = n
             THEN <<CodePoint(b, i, n)>> \o utf8_decode_ignore_from(b, i + n)
             ELSE utf8_decode_ignore_from(b, i + g)

utf8_decode_ignore(b) == utf8_decode_ignore_from(b, 1)

utf8_decode_replace(b) == utf8_decode_from(b, 1)

----------------------------------------------------------------------------
(* Helpers of the class.                                                   *)

ByteIds == 0..255

EmptyDict == <<>>

HasKey(d, k) == k \in DOMAIN d

(* d[k] = v on a dict: the old entry for k, if any, is replaced.           *)
Put(d, k, v) == [x \in (DOMAIN d) \cup {k} |-> IF x = k THEN v ELSE d[x]]

(* pairs[pair] = pairs.get(pair, 0) + 1 on an insertion-ordered dict.      *)
Bump(ps, pair) ==
    IF \E k \in 1..Len(ps) : ps[k][1] = pair
    THEN [k \in 1..Len(ps) |->
            IF ps[k][1] = pair THEN <<pair, ps[k][2] + 1>> ELSE ps[k]]
    ELSE Append(ps, <<pair, 1>>)

RECURSIVE get_stats_from(_, _, _)
get_stats_from(toks, i, ps) ==
    IF i > Len(toks) - 1 THEN ps
    ELSE get_stats_from(toks, i + 1, Bump(ps, <<toks[i], toks[i + 1]>>))

get_stats(toks) == get_stats_from(toks, 1, <<>>)

RECURSIVE merge_pair_from(_, _, _, _)
merge_pair_from(toks, pair, idx, i) ==
    IF i > Len(toks) THEN <<>>
    ELSE IF i < Len(toks) /\ toks[i] = pair[1] /\ toks[i + 1] = pair[2]
         THEN <<idx>> \o merge_pair_from(toks, pair, idx, i + 2)
         ELSE <<toks[i]>> \o merge_pair_from(toks, pair, idx, i + 1)

(* Variant: i += 1 after a replacement, so overlapping occurrences are     *)
(* replaced too.                                                           *)
RECURSIVE merge_pair_overlap_from(_, _, _, _)
merge_pair_overlap_from(toks, pair, idx, i) ==
    IF i > Len(toks) THEN <<>>
    ELSE IF i < Len(toks) /\ toks[i] = pair[1] /\ toks[i + 1] = pair[2]
         THEN <<idx>> \o merge_pair_overlap_from(toks, pair, idx, i + 1)
         ELSE <<toks[i]>> \o merge_pair_overlap_from(toks, pair, idx, i + 1)

merge_pair_overlap(toks, pair, idx) == merge_pair_overlap_from(toks, pair, idx, 1)

(* Variant: the list is scanned from its end, the rightmost occurrence of  *)
(* the pair is replaced first.                                             *)
RECURSIVE merge_pair_right_from(_, _, _, _)
merge_pair_right_from(toks, pair, idx, i) ==
    IF i < 1 THEN <<>>
    ELSE IF i > 1 /\ toks[i - 1] = pair[1] /\ toks[i] = pair[2]
         THEN Append(merge_pair_right_from(toks, pair, idx, i - 2), idx)
         ELSE Append(merge_pair_right_from(toks, pair, idx, i - 1), toks[i])

merge_pair_right(toks, pair, idx) == merge_pair_right_from(toks, pair, idx, Len(toks))

merge_pair(toks, pair, idx) == merge_pair_from(toks, pair, idx, 1)


(* Variant: of the keys with the highest count the last one, as a loop     *)
(* that compares with >= would find it.                                    *)
max_by_count_last(ps) ==
    LET k == CHOOSE k \in 1..Len(ps) :
                 /\ \A j \in 1..Len(ps) : ps[j][2] <= ps[k][2]
                 /\ \A j \in (k + 1)..Len(ps) : ps[j][2] < ps[k][2]
    IN  ps[k][1]

(* Variant: min instead of max, the first key with the lowest count.       *)
min_by_count(ps) ==
    LET k == CHOOSE k \in 1..Len(ps) :
                 /\ \A j \in 1..Len(ps) : ps[j][2] >= ps[k][2]
                 /\ \A j \in 1..(k - 1) : ps[j][2] > ps[k][2]
    IN  ps[k][1]

(* max(pairs, key=pairs.get): the first key, in insertion order, whose     *)
(* count no other key exceeds.                                             *)
max_by_count(ps) ==
    LET k == CHOOSE k \in 1..Len(ps) :
                 /\ \A j \in 1..Len(ps) : ps[j][2] <= ps[k][2]
                 /\ \A j \in 1..(k - 1) : ps[j][2] < ps[k][2]
    IN  ps[k][1]

(* key(p) < key(q) for key = lambda p: self.merges.get(p, float('inf')).   *)
RankLess(m, p, q) ==
    /\ HasKey(m, p)
    /\ (HasKey(m, q) => m[p] < m[q])

(* Variant: self.merges.get(p, 0), a pair without a merge ranks below      *)
(* every merge, so the first such pair is the minimum.                     *)
min_by_rank_zero(m, ps) ==
    LET rank(p) == IF HasKey(m, p) THEN m[p] ELSE 0
        k == CHOOSE k \in 1..Len(ps) :
                 /\ \A j \in 1..Len(ps) : rank(ps[k][1]) <= rank(ps[j][1])
                 /\ \A j \in 1..(k - 1) : rank(ps[k][1]) < rank(ps[j][1])
    IN  ps[k][1]

(* Variant: the leftmost pair that has a merge is applied, whatever its    *)
(* merge id.                                                               *)
min_by_rank_first(m, ps) ==
    IF \E k \in 1..Len(ps) : HasKey(m, ps[k][1])
    THEN LET k == CHOOSE k \in 1..Len(ps) :
                      /\ HasKey(m, ps[k][1])
                      /\ \A j \in 1..(k - 1) : ~HasKey(m, ps[j][1])
         IN  ps[k][1]
    ELSE ps[1][1]

(* min(pairs, key=...): the first key, in insertion order, that no other   *)
(* key ranks below.                                                        *)
min_by_rank(m, ps) ==
    LET k == CHOOSE k \in 1..Len(ps) :
                 /\ \A j \in 1..Len(ps) : ~RankLess(m, ps[j][1], ps[k][1])
                 /\ \A j \in 1..(k - 1) : RankLess(m, ps[k][1], ps[j][1])
    IN  ps[k][1]

(* Variant: the loop body runs once, an if where the code has a while.     *)
encode_loop_once(m, toks) ==
    LET ps == get_stats(toks)
    IN  IF ps = <<>> THEN toks
        ELSE LET pair == min_by_rank(m, ps)
             IN  IF ~HasKey(m, pair) THEN toks
                 ELSE merge_pair(toks, pair, m[pair])

(* The while loop of encode, entered with the byte values of the text.     *)
RECURSIVE encode_loop(_, _)
encode_loop(m, toks) ==
    LET ps == get_stats(toks)
    IN  IF ps = <<>> THEN toks
        ELSE LET pair == min_by_rank(m, ps)
             IN  IF ~HasKey(m, pair) THEN toks
                 ELSE encode_loop(m, merge_pair(toks, pair, m[pair]))

(* The values of encode's local tokens at the head of each iteration of    *)
(* the while loop, lines 55-62; the last one is the list returned.         *)
RECURSIVE encode_iters(_, _)
encode_iters(m, toks) ==
    LET ps == get_stats(toks)
    IN  IF ps = <<>> THEN <<toks>>
        ELSE LET pair == min_by_rank(m, ps)
             IN  IF ~HasKey(m, pair) THEN <<toks>>
                 ELSE <<toks>> \o encode_iters(m, merge_pair(toks, pair, m[pair]))

(* Variant: the text is encoded with another codec (UTF-16-LE) before the  *)
(* merges are applied.                                                     *)
RECURSIVE utf16le_encode(_)
utf16le_encode(text) ==
    IF text = <<>> THEN <<>>
    ELSE LET c == Head(text)
             unit(u) == <<u % 256, u \div 256>>
         IN  (IF c < 65536 THEN unit(c)
              ELSE unit(55296 + ((c - 65536) \div 1024))
                   \o unit(56320 + ((c - 65536) % 1024)))
             \o utf16le_encode(Tail(text))

encode_utf16(m, text) == encode_loop(m, utf16le_encode(text))

(* Variant: an end-of-text id 0 is appended to every encoding.             *)
encode_eos(m, text) == Append(encode_loop(m, utf8_encode(text)), 0)

encode(m, text) == encode_loop(m, utf8_encode(text))

RECURSIVE Join(_, _)
Join(v, toks) ==
    IF toks = <<>> THEN <<>> ELSE v[Head(toks)] \o Join(v, Tail(toks))

(* self.vocab[t] raises KeyError for an id that is no key of the dict.     *)
decode_raises(v, toks) == \E i \in 1..Len(toks) : ~HasKey(v, toks[i])

(* Variant: self.vocab.get(t, b''), an unknown id is skipped.              *)
RECURSIVE JoinKnown(_, _)
JoinKnown(v, toks) ==
    IF toks = <<>> THEN <<>>
    ELSE (IF HasKey(v, Head(toks)) THEN v[Head(toks)] ELSE <<>>)
         \o JoinKnown(v, Tail(toks))

decode_skip_unknown(v, toks) ==
    [err |-> FALSE, out |-> utf8_decode_replace(JoinKnown(v, toks))]

(* decode, lines 66-67: the exception, or the string returned.             *)
decode(v, toks) ==
    IF decode_raises(v, toks)
    THEN [err |-> TRUE, out |-> <<>>]
    ELSE [err |-> FALSE, out |-> utf8_decode_replace(Join(v, toks))]

(* Variant: the loop also stops when no pair occurs twice.                 *)
no_repeated_pair(ps) == \A k \in 1..Len(ps) : ps[k][2] <= 1

(* if not pairs, line 44.                                                  *)
no_pairs(ps) == ps = <<>>

(* Variant: the range is one too long.                                     *)
range_len_off(vs) == IF vs - 255 > 0 THEN vs - 255 ELSE 0

(* len(range(self.vocab_size - 256)): the iterations the for loop allows.  *)
range_len(vs) == IF vs - 256 > 0 THEN vs - 256 ELSE 0

(* {i: bytes([i]) for i in range(256)}                                     *)
byte_vocab == [i \in ByteIds |-> <<i>>]

(* Variant: the two parts are concatenated in the wrong order.             *)
merged_bytes_swapped(v, pair) == v[pair[2]] \o v[pair[1]]

(* Variant: the first part is concatenated with itself.                    *)
merged_bytes_first(v, pair) == v[pair[1]] \o v[pair[1]]

merged_bytes(v, pair) == v[pair[1]] \o v[pair[2]]

(* str(k) of a non-negative int and the f-string "{k[0]},{k[1]}".          *)
Digit(d) == <<"0", "1", "2", "3", "4", "5", "6", "7", "8", "9">>[d + 1]

RECURSIVE str(_)
str(n) == IF n < 10 THEN Digit(n) ELSE str(n \div 10) \o Digit(n % 10)

pair_key(k) == str(k[1]) \o "," \o str(k[2])

(* Variant: only the byte entries are written, for k in range(256).        *)
RECURSIVE dump_vocab_bytes(_, _, _)
dump_vocab_bytes(v, lo, hi) ==
    IF lo > hi \/ lo > 255 THEN EmptyDict
    ELSE IF lo = hi
         THEN IF HasKey(v, lo) THEN str(lo) :> v[lo] ELSE EmptyDict
         ELSE LET mid == (lo + hi) \div 2
              IN  dump_vocab_bytes(v, mid + 1, hi) @@ dump_vocab_bytes(v, lo, mid)

(* {str(k): list(v) for k, v in self.vocab.items()}: the items in the      *)
(* dict's order, which for self.vocab is the order of the ids (line 39     *)
(* inserts 0..255 in order, line 49 the next ids); a later item with the   *)
(* same key replaces the earlier one.                                      *)
RECURSIVE dump_vocab(_, _, _)
dump_vocab(v, lo, hi) ==
    IF lo > hi THEN EmptyDict
    ELSE IF lo = hi
         THEN IF HasKey(v, lo) THEN str(lo) :> v[lo] ELSE EmptyDict
         ELSE LET mid == (lo + hi) \div 2
              IN  dump_vocab(v, mid + 1, hi) @@ dump_vocab(v, lo, mid)

MaxId(v) == CHOOSE k \in DOMAIN v : \A j \in DOMAIN v : j <= k

(* The dict that save hands to json.dump.                                  *)
save_state(vs, v, m) ==
    LET mkey == [k \in DOMAIN m |-> pair_key(k)]
    IN  [vocab_size |-> vs,
         vocab  |-> IF DOMAIN v = {} THEN EmptyDict ELSE dump_vocab(v, 0, MaxId(v)),
         merges |-> [s \in {mkey[k] : k \in DOMAIN m} |->
                        m[CHOOSE k \in DOMAIN m : mkey[k] = s]]]

(* train run to its end in one go, lines 42-51: the loop entered with the  *)
(* tokens toks, the dicts v and m, the next id nxt, stp iterations done    *)
(* out of n.                                                               *)
RECURSIVE train_loop(_, _, _, _, _, _)
train_loop(toks, v, m, nxt, stp, n) ==
    IF stp >= n \/ no_pairs(get_stats(toks))
    THEN [vocab |-> v, merges |-> m, tokens |-> toks]
    ELSE LET bp == max_by_count(get_stats(toks))
         IN  train_loop(merge_pair(toks, bp, nxt), Put(v, nxt, merged_bytes(v, bp)),
                        Put(m, bp, nxt), nxt + 1, stp + 1, n)

(* t = MinimalBPETokenizer(vs); t.train(text): what t.vocab and t.merges   *)
(* are afterwards.                                                         *)
train_fresh(vs, text) ==
    train_loop(utf8_encode(text), byte_vocab, EmptyDict, 256, 0, range_len(vs))

----------------------------------------------------------------------------
(* src/.gamma/gateway/server.py: GammaGateway.                             *)
(*                                                                         *)
(* The handlers are coroutines of one event loop: a handler runs without   *)
(* interruption from one await to the next; the awaits that can suspend it *)
(* are the websocket.send calls and the wait for the next message. A       *)
(* websocket is an element of Conns, the time stamps of the replies and    *)
(* of the session dicts are left out.                                      *)

Conns == 1..MaxConns

SessionIds == {"s1", "s2"}

(* An incoming message, by what json.loads and the dispatch on its type    *)
(* make of it: the three types of lines 58-83; "other", an object of       *)
(* another type; "malformed", a text json.loads rejects with               *)
(* JSONDecodeError; "undecodable", a message that is no JSON either and on *)
(* which json.loads raises another exception (UnicodeDecodeError on a      *)
(* binary frame that is not UTF-8, RecursionError on a text of 100000      *)
(* opening brackets); "not_object", valid JSON that is no object, on which *)
(* data.get raises AttributeError.                                         *)
Msg(kind, sid) == [kind |-> kind, session_id |-> sid]

Messages ==
    {Msg(k, "") : k \in {"ping", "session.list", "other", "malformed",
                         "undecodable", "not_object"}}
    \cup {Msg("session.create", sid) : sid \in SessionIds}

(* What json.loads(message) and data.get("type") do, lines 55-56.          *)
loads_raises_JSONDecodeError(msg) == msg.kind = "malformed"

loads_raises_other(msg) == msg.kind = "undecodable"

get_raises(msg) == msg.kind = "not_object"

(* The number of messages the handlers were given so far.                 *)
RECURSIVE TotalLen(_, _)
TotalLen(logs, n) == IF n = 0 THEN 0 ELSE Len(logs[n]) + TotalLen(logs, n - 1)

(* The dict handed to json.dumps and websocket.send.                       *)
Reply(type, sid, keys, error) ==
    [type |-> type, session_id |-> sid, sessions |-> keys, error |-> error]

Connected == Reply("gateway.connected", "", {}, "")

(* The value line 67 stores in self.sessions.                              *)
NewSession == [coherence |-> "PHI_INV", messages |-> <<>>]

(* self.clients = set(); self.sessions = {}, lines 29-30; no connection    *)
(* has been accepted.                                                      *)
GatewayInit ==
    /\ clients = {}
    /\ sessions = EmptyDict
    /\ hpc = [w \in Conns |-> "none"]
    /\ pending = [w \in Conns |-> <<>>]
    /\ sent = [w \in Conns |-> <<>>]
    /\ received = [w \in Conns |-> <<>>]

(* Variant: unregister_client also empties self.sessions when the last     *)
(* client has left.                                                        *)
unregister_client_gc(w) ==
    /\ clients' = clients \ {w}
    /\ sessions' = IF clients' = {} THEN EmptyDict ELSE sessions

(* unregister_client, lines 48-50 (it has no await).                       *)
unregister_client(w) ==
    /\ clients' = clients \ {w}
    /\ sessions' = sessions

(* handler is called for a new connection, line 94; register_client runs   *)
(* up to its await, lines 35-40.                                           *)
Connect(w) ==
    /\ hpc[w] = "none"
    /\ clients' = clients \cup {w}
    /\ pending' = [pending EXCEPT ![w] = <<Connected>>]
    /\ hpc' = [hpc EXCEPT ![w] = "register"]
    /\ UNCHANGED <<sessions, sent, received, outside_gateway>>

(* The send of line 40 completes, register_client returns and handler      *)
(* waits for the first message, line 96.                                   *)
RegisterSent(w) ==
    /\ hpc[w] = "register"
    /\ sent' = [sent EXCEPT ![w] = Append(@, pending[w][1])]
    /\ pending' = [pending EXCEPT ![w] = <<>>]
    /\ hpc' = [hpc EXCEPT ![w] = "iterate"]
    /\ UNCHANGED <<clients, sessions, received, outside_gateway>>

(* The connection is closed before the send of line 40 completes: send     *)
(* raises ConnectionClosed, which leaves register_client and, line 94      *)
(* standing before the try of line 95, leaves handler.                     *)
RegisterSendFails(w) ==
    /\ hpc[w] = "register"
    /\ pending' = [pending EXCEPT ![w] = <<>>]
    /\ hpc' = [hpc EXCEPT ![w] = "raised"]
    /\ UNCHANGED <<clients, sessions, sent, received, outside_gateway>>

(* The next message of the connection, lines 96-97: handle_message runs up *)
(* to the await of its send, to its return (no branch for the type), or to *)
(* an exception it does not catch, which runs the finally of line 100 and  *)
(* leaves handler.                                                         *)
Receive(w, msg) ==
    /\ hpc[w] = "iterate"
    /\ TotalLen(received, MaxConns) < MaxMsgs
    /\ received' = [received EXCEPT ![w] = Append(@, msg)]
    /\ UNCHANGED <<sent, outside_gateway>>
    /\ IF loads_raises_other(msg) \/ get_raises(msg)
       THEN /\ unregister_client(w)
            /\ hpc' = [hpc EXCEPT ![w] = "raised"]
            /\ UNCHANGED pending
       ELSE IF loads_raises_JSONDecodeError(msg)
       THEN /\ pending' = [pending EXCEPT ![w] =
                               <<Reply("error", "", {}, "invalid_json")>>]
            /\ hpc' = [hpc EXCEPT ![w] = "reply"]
            /\ UNCHANGED <<clients, sessions>>
       ELSE IF msg.kind = "ping"
       THEN /\ pending' = [pending EXCEPT ![w] = <<Reply("pong", "", {}, "")>>]
            /\ hpc' = [hpc EXCEPT ![w] = "reply"]
            /\ UNCHANGED <<clients, sessions>>
       ELSE IF msg.kind = "session.create"
       THEN /\ sessions' = Put(sessions, msg.session_id, NewSession)
            /\ pending' = [pending EXCEPT ![w] =
                               <<Reply("session.created", msg.session_id, {}, "")>>]
            /\ hpc' = [hpc EXCEPT ![w] = "reply"]
            /\ UNCHANGED clients
       ELSE IF msg.kind = "session.list"
       THEN /\ pending' = [pending EXCEPT ![w] =
                               <<Reply("session.list", "", DOMAIN sessions, "")>>]
            /\ hpc' = [hpc EXCEPT ![w] = "reply"]
            /\ UNCHANGED <<clients, sessions>>
       ELSE UNCHANGED <<clients, sessions, pending, hpc>>

(* The send of handle_message completes, handle_message returns and        *)
(* handler waits for the next message.                                     *)
ReplySent(w) ==
    /\ hpc[w] = "reply"
    /\ sent' = [sent EXCEPT ![w] = Append(@, pending[w][1])]
    /\ pending' = [pending EXCEPT ![w] = <<>>]
    /\ hpc' = [hpc EXCEPT ![w] = "iterate"]
    /\ UNCHANGED <<clients, sessions, received, outside_gateway>>

(* The connection is closed before the send of handle_message completes:   *)
(* ConnectionClosed leaves handle_message (also from the except block of   *)
(* line 85), is caught at line 98, and the finally unregisters.            *)
ReplySendFails(w) ==
    /\ hpc[w] = "reply"
    /\ unregister_client(w)
    /\ pending' = [pending EXCEPT ![w] = <<>>]
    /\ hpc' = [hpc EXCEPT ![w] = "returned"]
    /\ UNCHANGED <<sent, received, outside_gateway>>

(* The connection is closed while handler waits for a message: the         *)
(* iteration ends, or raises ConnectionClosed (line 98); the finally       *)
(* unregisters and handler returns.                                        *)
Close(w) ==
    /\ hpc[w] = "iterate"
    /\ unregister_client(w)
    /\ hpc' = [hpc EXCEPT ![w] = "returned"]
    /\ UNCHANGED <<pending, sent, received, outside_gateway>>

----------------------------------------------------------------------------
(* src/.gamma/gateway/sessions.py: SessionManager.                         *)
(*                                                                         *)
(* A session dict keeps its id, channel, coherence and messages; the time  *)
(* stamps and the constant metadata are left out. A coherence is written   *)
(* in millionths.                                                          *)

Contents == {"m1", "m2"}

(* PHI_INV rounded to millionths, and another value for update_coherence.  *)
SessionCoherences == {618034, 1000000}

(* The dict create_session builds, lines 25-36.                            *)
NewSessionDict(sid) ==
    [id |-> sid, channel |-> "main", coherence |-> 618034, messages |-> <<>>]

SessionCall(op, arg, out) == [op |-> op, arg |-> arg, out |-> out]

NoSessionCall == SessionCall("none", "", <<>>)

(* SessionManager(workspace) over a workspace without session files,       *)
(* lines 19-21.                                                            *)
SessionsInit ==
    /\ active_sessions = EmptyDict
    /\ session_files = EmptyDict
    /\ sret = NoSessionCall
    /\ scalls = 0

(* self.active_sessions after lines 44-45 of add_message: create_session   *)
(* puts a new dict under a session_id that is not in active_sessions.      *)
add_message_start(sid) ==
    IF HasKey(active_sessions, sid) THEN active_sessions
    ELSE Put(active_sessions, sid, NewSessionDict(sid))

(* add_message, lines 44-55; the file written by create_session at line 39 *)
(* is written again at line 55.                                            *)
AddMessage(sid, role, content) ==
    /\ scalls < MaxSessionCalls
    /\ LET started == add_message_start(sid)
           message == [role |-> role, content |-> content,
                       coherence |-> started[sid].coherence]
           session == [started[sid] EXCEPT !.messages = Append(@, message)]
       IN  /\ active_sessions' = Put(started, sid, session)
           /\ session_files' = Put(session_files, sid, session)
    /\ sret' = SessionCall("add_message", sid, <<>>)
    /\ scalls' = scalls + 1
    /\ UNCHANGED <<tokenizer_vars, gateway_vars, updater_vars>>

(* get_session, lines 59-70: the dict in memory, else the file's content,  *)
(* which is put into active_sessions, else None.                           *)
GetSession(sid) ==
    /\ IF HasKey(active_sessions, sid)
       THEN /\ sret' = SessionCall("get_session", sid, <<active_sessions[sid]>>)
            /\ UNCHANGED active_sessions
       ELSE IF HasKey(session_files, sid)
       THEN /\ sret' = SessionCall("get_session", sid, <<session_files[sid]>>)
            /\ active_sessions' = Put(active_sessions, sid, session_files[sid])
       ELSE /\ sret' = SessionCall("get_session", sid, <<>>)
            /\ UNCHANGED active_sessions
    /\ UNCHANGED <<session_files, scalls, tokenizer_vars, gateway_vars, updater_vars>>

(* list_sessions, line 74.                                                 *)
ListSessions ==
    /\ sret' = SessionCall("list_sessions", "", <<DOMAIN active_sessions>>)
    /\ UNCHANGED <<active_sessions, session_files, scalls, tokenizer_vars,
                   gateway_vars, updater_vars>>

(* update_coherence, lines 86-88.                                          *)
UpdateCoherence(sid, coherence) ==
    /\ scalls < MaxSessionCalls
    /\ IF HasKey(active_sessions, sid)
       THEN LET session == [active_sessions[sid] EXCEPT !.coherence = coherence]
            IN  /\ active_sessions' = Put(active_sessions, sid, session)
                /\ session_files' = Put(session_files, sid, session)
       ELSE UNCHANGED <<active_sessions, session_files>>
    /\ sret' = SessionCall("update_coherence", sid, <<>>)
    /\ scalls' = scalls + 1
    /\ UNCHANGED <<tokenizer_vars, gateway_vars, updater_vars>>

(* The process ends and a new SessionManager is made over the same         *)
(* workspace, lines 19-21: the files stay, active_sessions is empty.       *)
RestartSessions ==
    /\ active_sessions # EmptyDict
    /\ active_sessions' = EmptyDict
    /\ sret' = NoSessionCall
    /\ UNCHANGED <<session_files, scalls, tokenizer_vars, gateway_vars, updater_vars>>

----------------------------------------------------------------------------
(* src/.gamma/auto_updater.py: MasterIndexUpdater over MASTER_INDEX.json.  *)
(*                                                                         *)
(* A coherence is written in millionths, the unit of round(x, 6). Of the   *)
(* file the model keeps current_phase (gamma_level, coherence_phi),        *)
(* next_construction_step (phase number, coherence_target, phi_factor) and *)
(* last_update, here the number of the call that wrote it; name, status,   *)
(* distance_to_phi_7, description and actions are functions of these.      *)

Coherences == {146000, 236000, 382000, 500000, 618000}

GammaLevels == {2, 3, 4}

(* round(target * PHI_INV, 6), lines 9, 48 and 58, for a target given in   *)
(* millionths; the product is formed in two parts to stay in 32 bits.      *)
scale_by_PHI_INV(target) ==
    LET nano == (target \div 1000) * 618034 + ((target % 1000) * 618034) \div 1000
    IN  (nano + 500) \div 1000

(* current_coherence <= target * 1.1, line 46.                             *)
within_tolerance(current_coherence, target) ==
    10 * current_coherence <= 11 * target

UpdaterCall(op, out) == [op |-> op, out |-> out]

(* The MASTER_INDEX.json the script leaves at line 81: level 2 with        *)
(* coherence 0.382, which line 80 names as the target of that level.       *)
UpdaterInit ==
    /\ index_file =
           [current_phase |-> [gamma_level |-> 2, coherence_phi |-> 382000],
            next_construction_step |-> [phase |-> 3, coherence_target |-> 382000,
                                        phi_factor |-> 382000],
            last_update |-> 0]
    /\ uret = UpdaterCall("none", <<>>)
    /\ ucalls = 0

(* load_index, lines 17-18.                                                *)
load_index == index_file

(* The dict update_current_phase saves, lines 22-36: the file as loaded at *)
(* line 22 with current_phase and last_update replaced.                    *)
update_current_phase(new_coherence, gamma_level) ==
    [load_index EXCEPT
        !.current_phase = [gamma_level |-> gamma_level,
                           coherence_phi |-> new_coherence],
        !.last_update = ucalls + 1]

(* The step advance_to_next_gamma builds at lines 50-60.                   *)
next_step(new_gamma, target) ==
    [phase |-> new_gamma + 1,
     coherence_target |-> scale_by_PHI_INV(target),
     phi_factor |-> scale_by_PHI_INV(target)]

(* update_current_phase called by a user, as at line 81.                   *)
UpdateCurrentPhase(new_coherence, gamma_level) ==
    /\ ucalls < MaxUpdaterCalls
    /\ index_file' = update_current_phase(new_coherence, gamma_level)
    /\ uret' = UpdaterCall("update_current_phase", <<index_file'.current_phase>>)
    /\ ucalls' = ucalls + 1
    /\ UNCHANGED <<tokenizer_vars, gateway_vars, session_vars>>

(* advance_to_next_gamma, lines 41-69. The step of lines 50-60 is put in   *)
(* the dict `index` of line 41; line 62 then calls update_current_phase,   *)
(* which loads the file again and saves that, so `index` is never saved.   *)
AdvanceToNextGamma ==
    /\ ucalls < MaxUpdaterCalls
    /\ LET index == load_index
           current_gamma == index.current_phase.gamma_level
           current_coherence == index.current_phase.coherence_phi
           target == index.next_construction_step.coherence_target
           new_gamma == current_gamma + 1
           advanced == [index EXCEPT
                           !.next_construction_step = next_step(new_gamma, target)]
       IN  IF within_tolerance(current_coherence, target)
           THEN /\ advanced.current_phase = index.current_phase
                /\ index_file' = update_current_phase(current_coherence, new_gamma)
                /\ uret' = UpdaterCall("advance_to_next_gamma", <<TRUE>>)
           ELSE /\ UNCHANGED index_file
                /\ uret' = UpdaterCall("advance_to_next_gamma", <<FALSE>>)
    /\ ucalls' = ucalls + 1
    /\ UNCHANGED <<tokenizer_vars, gateway_vars, session_vars>>

----------------------------------------------------------------------------
(* The state machine: one tokenizer object and its caller.                 *)

Call(op, arg, out, err, of) ==
    [op |-> op, arg |-> arg, out |-> out, err |-> err, of |-> of]

NoCall == Call("none", <<>>, <<>>, FALSE, <<>>)

(* MinimalBPETokenizer(vocab_size), lines 10-13.                           *)
Init ==
    /\ vocab_size \in VocabSizes
    /\ vocab = EmptyDict
    /\ merges = EmptyDict
    /\ file = <<>>
    /\ pc = "idle"
    /\ tokens = <<>>
    /\ next_idx = 0
    /\ step = 0
    /\ pairs = <<>>
    /\ best_pair = <<>>
    /\ entry = [vocab |-> EmptyDict, merges |-> EmptyDict]
    /\ trained = <<>>
    /\ ret = NoCall
    /\ GatewayInit
    /\ SessionsInit
    /\ UpdaterInit

(* Variant: an incremental train that keeps a vocabulary it finds and      *)
(* numbers the new merges after it.                                        *)
TrainStartKeep(text) ==
    /\ pc = "idle"
    /\ tokens' = utf8_encode(text)
    /\ vocab' = IF vocab = EmptyDict THEN byte_vocab ELSE vocab
    /\ next_idx' = Cardinality(DOMAIN vocab')
    /\ step' = 0
    /\ pairs' = <<>>
    /\ best_pair' = <<>>
    /\ entry' = [vocab |-> vocab, merges |-> merges]
    /\ trained' = Append(trained, text)
    /\ ret' = Call("train", text, <<>>, FALSE, <<>>)
    /\ pc' = "train"
    /\ UNCHANGED <<other_objects, vocab_size, merges, file>>

(* Variant: the first merge id is 255, the id of the last byte.             *)
TrainStartLow(text) ==
    /\ pc = "idle"
    /\ tokens' = utf8_encode(text)
    /\ vocab' = byte_vocab
    /\ next_idx' = 255
    /\ step' = 0
    /\ pairs' = <<>>
    /\ best_pair' = <<>>
    /\ entry' = [vocab |-> vocab, merges |-> merges]
    /\ trained' = Append(trained, text)
    /\ ret' = Call("train", text, <<>>, FALSE, <<>>)
    /\ pc' = "train"
    /\ UNCHANGED <<other_objects, vocab_size, merges, file>>

(* Variant: train returns at once on an empty text, before it builds the   *)
(* byte vocabulary.                                                        *)
TrainStartSkipEmpty(text) ==
    /\ pc = "idle"
    /\ tokens' = utf8_encode(text)
    /\ vocab' = IF text = <<>> THEN vocab ELSE byte_vocab
    /\ next_idx' = 256
    /\ step' = 0
    /\ pairs' = <<>>
    /\ best_pair' = <<>>
    /\ entry' = [vocab |-> vocab, merges |-> merges]
    /\ trained' = Append(trained, text)
    /\ ret' = Call("train", text, <<>>, FALSE, <<>>)
    /\ pc' = "train"
    /\ UNCHANGED <<other_objects, vocab_size, merges, file>>

(* train, lines 38-40: up to the first test of the for loop.               *)
TrainStart(text) ==
    /\ pc = "idle"
    /\ tokens' = utf8_encode(text)
    /\ vocab' = byte_vocab
    /\ next_idx' = 256
    /\ step' = 0
    /\ pairs' = <<>>
    /\ best_pair' = <<>>
    /\ entry' = [vocab |-> vocab, merges |-> merges]
    /\ trained' = Append(trained, text)
    /\ ret' = Call("train", text, <<>>, FALSE, <<>>)
    /\ pc' = "train"
    /\ UNCHANGED <<other_objects, vocab_size, merges, file>>

(* Variant: while True in place of the for loop, the iterations are not    *)
(* counted against vocab_size.                                             *)
TrainIterUnbounded ==
    /\ pc = "train"
    /\ ~no_pairs(get_stats(tokens))
    /\ pairs' = get_stats(tokens)
    /\ best_pair' = max_by_count(pairs')
    /\ merges' = Put(merges, best_pair', next_idx)
    /\ vocab' = Put(vocab, next_idx, merged_bytes(vocab, best_pair'))
    /\ tokens' = merge_pair(tokens, best_pair', next_idx)
    /\ next_idx' = next_idx + 1
    /\ step' = step + 1
    /\ UNCHANGED <<other_objects, vocab_size, file, pc, entry, trained, ret>>

(* One full iteration of the for loop, lines 43-51.                        *)
TrainIter ==
    /\ pc = "train"
    /\ step < range_len(vocab_size)
    /\ ~no_pairs(get_stats(tokens))
    /\ pairs' = get_stats(tokens)
    /\ best_pair' = max_by_count(pairs')
    /\ merges' = Put(merges, best_pair', next_idx)
    /\ vocab' = Put(vocab, next_idx, merged_bytes(vocab, best_pair'))
    /\ tokens' = merge_pair(tokens, best_pair', next_idx)
    /\ next_idx' = next_idx + 1
    /\ step' = step + 1
    /\ UNCHANGED <<other_objects, vocab_size, file, pc, entry, trained, ret>>

(* Lines 43-45: get_stats finds no pair, break, train returns.             *)
TrainBreak ==
    /\ pc = "train"
    /\ step < range_len(vocab_size)
    /\ no_pairs(get_stats(tokens))
    /\ pairs' = get_stats(tokens)
    /\ pc' = "return"
    /\ UNCHANGED <<other_objects, vocab_size, vocab, merges, file, tokens, next_idx, step,
                   best_pair, entry, trained, ret>>

(* The range of the for loop is used up, train returns.                    *)
TrainDone ==
    /\ pc = "train"
    /\ step >= range_len(vocab_size)
    /\ pc' = "return"
    /\ UNCHANGED <<other_objects, vocab_size, vocab, merges, file, tokens, next_idx, step,
                   pairs, best_pair, entry, trained, ret>>

(* encode, lines 54-63.                                                    *)
Encode(text) ==
    /\ pc = "idle"
    /\ ret' = Call("encode", text, encode(merges, text), FALSE, <<>>)
    /\ pc' = "return"
    /\ UNCHANGED <<other_objects, vocab_size, vocab, merges, file, tokens, next_idx, step,
                   pairs, best_pair, entry, trained>>

(* Variant: self.vocab is a defaultdict(bytes), a lookup of an unknown id  *)
(* inserts it.                                                             *)
DecodeCallSetdefault(toks, of) ==
    /\ vocab' = [k \in (DOMAIN vocab) \cup {toks[i] : i \in 1..Len(toks)} |->
                    IF HasKey(vocab, k) THEN vocab[k] ELSE <<>>]
    /\ ret' = Call("decode", toks, utf8_decode_replace(Join(vocab', toks)), FALSE, of)
    /\ pc' = "return"
    /\ UNCHANGED <<other_objects, vocab_size, merges, file, tokens, next_idx, step,
                   pairs, best_pair, entry, trained>>

(* decode, lines 66-67; of = <<text>> when toks is what encode(text) gave. *)
DecodeCall(toks, of) ==
    /\ LET r == decode(vocab, toks)
       IN  ret' = Call("decode", toks, r.out, r.err, of)
    /\ pc' = "return"
    /\ UNCHANGED <<other_objects, vocab_size, vocab, merges, file, tokens, next_idx, step,
                   pairs, best_pair, entry, trained>>

Decode(toks) ==
    /\ pc = "idle"
    /\ DecodeCall(toks, <<>>)

(* __main__, lines 94-95: the list encode returned goes straight to        *)
(* decode.                                                                 *)
DecodeEncoded ==
    /\ pc = "return"
    /\ ret.op = "encode"
    /\ DecodeCall(ret.out, <<ret.arg>>)

(* save, lines 70-82, with the default path.                               *)
Save ==
    /\ pc = "idle"
    /\ file' = <<save_state(vocab_size, vocab, merges)>>
    /\ ret' = Call("save", <<>>, <<>>, FALSE, <<>>)
    /\ pc' = "return"
    /\ UNCHANGED <<other_objects, vocab_size, vocab, merges, tokens, next_idx, step,
                   pairs, best_pair, entry, trained>>

(* merge_pair, lines 25-35, called on the object from outside.             *)
MergePair(toks, pair, idx) ==
    /\ pc = "idle"
    /\ ret' = Call("merge_pair", <<toks, pair, idx>>, merge_pair(toks, pair, idx),
                   FALSE, <<>>)
    /\ pc' = "return"
    /\ UNCHANGED <<other_objects, vocab_size, vocab, merges, file, tokens, next_idx, step,
                   pairs, best_pair, entry, trained>>

(* The caller has taken the result (or the exception) of the call.         *)
Return ==
    /\ pc = "return"
    /\ pc' = "idle"
    /\ ret' = NoCall
    /\ UNCHANGED <<other_objects, vocab_size, vocab, merges, file, tokens, next_idx, step,
                   pairs, best_pair, entry, trained>>

(* A tokenizer that is trained at most once, as in __main__.               *)
TrainFresh(text) ==
    /\ trained = <<>>
    /\ TrainStart(text)

(* A tokenizer whose train method is called again and again.               *)
Retrain(text) ==
    /\ Len(trained) < MaxTrains
    /\ TrainStart(text)

Calls ==
    \/ TrainIter
    \/ TrainBreak
    \/ TrainDone
    \/ \E text \in Texts : Encode(text)
    \/ \E toks \in TokenLists : Decode(toks)
    \/ DecodeEncoded
    \/ Save
    \/ Return

Next ==
    \/ \E text \in Texts : TrainFresh(text)
    \/ Calls

Spec == Init /\ [][Next]_vars

NextRetrain ==
    \/ \E text \in RetrainTexts : Retrain(text)
    \/ Calls

SpecRetrain == Init /\ [][NextRetrain]_vars

(* A tokenizer trained at most once and then used to encode and decode     *)
(* texts with characters of one, two and four bytes, as __main__ does      *)
(* with its test strings.                                                  *)
NextWide ==
    \/ \E text \in WideTexts : TrainFresh(text)
    \/ TrainIter
    \/ TrainBreak
    \/ TrainDone
    \/ \E text \in WideTexts : Encode(text)
    \/ DecodeEncoded
    \/ Return

SpecWide == Init /\ [][NextWide]_vars

(* A caller that only trains a fresh tokenizer; a train call that has      *)
(* started keeps running, it never waits for anything.                     *)
NextTrain ==
    \/ \E text \in Texts : TrainFresh(text)
    \/ TrainIter
    \/ TrainBreak
    \/ TrainDone
    \/ Return

SpecTrainFair ==
    Init /\ [][NextTrain]_vars /\ WF_vars(TrainIter \/ TrainBreak \/ TrainDone)

(* The initial state for the users of the other objects, with the          *)
(* tokenizer as MinimalBPETokenizer() makes it, vocab_size=500, and left   *)
(* unused.                                                                 *)
InitUnused == Init /\ vocab_size = 500

(* The gateway process: connections come, send messages and go in any      *)
(* order; the tokenizer object is not used.                                *)
NextGateway ==
    \/ \E w \in Conns : Connect(w)
    \/ \E w \in Conns : RegisterSent(w)
    \/ \E w \in Conns : RegisterSendFails(w)
    \/ \E w \in Conns, msg \in Messages : Receive(w, msg)
    \/ \E w \in Conns : ReplySent(w)
    \/ \E w \in Conns : ReplySendFails(w)
    \/ \E w \in Conns : Close(w)

SpecGateway == InitUnused /\ [][NextGateway]_vars

(* A user of the SessionManager, and restarts of its process.              *)
NextSessions ==
    \/ \E sid \in SessionIds, content \in Contents : AddMessage(sid, "user", content)
    \/ \E sid \in SessionIds : GetSession(sid)
    \/ ListSessions
    \/ \E sid \in SessionIds, c \in SessionCoherences : UpdateCoherence(sid, c)
    \/ RestartSessions

SpecSessions == InitUnused /\ [][NextSessions]_vars

(* A user of the MasterIndexUpdater, as the script at lines 76-84.         *)
NextUpdater ==
    \/ \E c \in Coherences, g \in GammaLevels : UpdateCurrentPhase(c, g)
    \/ AdvanceToNextGamma

SpecUpdater == InitUnused /\ [][NextUpdater]_vars

(* A caller that uses the object for its merge_pair method only.           *)
NextMerge ==
    \/ \E toks \in SeqsUpTo(MergeIds, MaxMergeLen), pair \in MergeIds \X MergeIds,
          idx \in MergeIdx : MergePair(toks, pair, idx)
    \/ Return

SpecMerge == Init /\ [][NextMerge]_vars

----------------------------------------------------------------------------
(* Properties.                                                             *)

Returned(op) == pc = "return" /\ ret.op = op

Range(q) == {q[i] : i \in 1..Len(q)}

BytesOf(text) == Range(utf8_encode(text))

(* pairs.get(pair, 0) on a get_stats result.                               *)
CountIn(ps, pair) ==
    IF \E k \in 1..Len(ps) : ps[k][1] = pair
    THEN LET k == CHOOSE k \in 1..Len(ps) : ps[k][1] = pair IN ps[k][2]
    ELSE 0

(* The number of positions of toks at which the adjacent pair p starts,    *)
(* overlapping positions included.                                         *)
Occurrences(toks, p) ==
    Cardinality({i \in 1..(Len(toks) - 1) : <<toks[i], toks[i + 1]>> = p})

(* A Unicode scalar value: a code point that is no surrogate.              *)
IsScalar(c) == c \in 0..1114111 /\ c \notin 55296..57343

(* The text "aaaa".                                                       *)
AAAA == <<97, 97, 97, 97>>

(* C1: on a tokenizer trained exactly once, decoding what encode(s) gave   *)
(* returns s, without an error, for every text s whose UTF-8 bytes all     *)
(* occur in the corpus.                                                    *)
C1_RoundTrip ==
    (/\ Returned("decode")
     /\ ret.of # <<>>
     /\ Len(trained) = 1
     /\ BytesOf(ret.of[1]) \subseteq BytesOf(trained[1]))
    => (~ret.err /\ ret.out = ret.of[1])

(* A round trip through at least one merge, on a text with a two-byte      *)
(* character.                                                              *)
C1_Witness ==
    /\ Returned("decode")
    /\ ret.of # <<>>
    /\ Len(trained) = 1
    /\ BytesOf(ret.of[1]) \subseteq BytesOf(trained[1])
    /\ 233 \in Range(ret.of[1])
    /\ Len(ret.arg) < Len(utf8_encode(ret.of[1]))
    /\ \E i \in 1..Len(ret.arg) : ret.arg[i] >= 256
    /\ ret.out = ret.of[1]

(* C2: between calls, every id the merge table maps to has a vocabulary    *)
(* entry, and for each merge (a, b) -> n, vocab[n] = vocab[a] + vocab[b].  *)
C2_MergesMatchVocab ==
    (pc # "train") =>
        \A p \in DOMAIN merges :
            /\ HasKey(vocab, merges[p])
            /\ HasKey(vocab, p[1])
            /\ HasKey(vocab, p[2])
            /\ vocab[merges[p]] = vocab[p[1]] \o vocab[p[2]]

(* C3: encode never returns more tokens than the text has UTF-8 bytes.     *)
C3_EncodeNotLonger ==
    Returned("encode") => Len(ret.out) <= Len(utf8_encode(ret.arg))

(* An encode call that applied a merge.                                    *)
C3_Witness ==
    /\ Returned("encode")
    /\ trained # <<>>
    /\ Len(ret.out) < Len(utf8_encode(ret.arg))
    /\ Len(ret.out) >= 2

(* C4: when train returns from a call whose corpus is the corpus of the    *)
(* previous train call on the same object, the vocabulary and the merge    *)
(* table are what they were when the call was entered.                     *)
C4_TrainIdempotent ==
    (/\ Returned("train")
     /\ Len(trained) >= 2
     /\ trained[Len(trained)] = trained[Len(trained) - 1])
    => (vocab = entry.vocab /\ merges = entry.merges)

(* A second training on the same corpus that recorded several merges.      *)
C4_Witness ==
    /\ Returned("train")
    /\ Len(trained) = 2
    /\ trained[2] = trained[1]
    /\ step >= 2
    /\ Cardinality(DOMAIN merges) >= 2
    /\ vocab = entry.vocab

(* C5, as claimed: train returns only when the range is used up or no pair *)
(* of the token sequence occurs more than once, and the pair recorded by   *)
(* an iteration occurs at least twice in the sequence it was counted in.   *)
C5_StopsWhenNoPairRepeats ==
    /\ Returned("train") =>
          (step >= range_len(vocab_size) \/ no_repeated_pair(get_stats(tokens)))
    /\ (pc = "train" /\ step > 0) => CountIn(pairs, best_pair) >= 2

(* C5, amended: train returns only when the vocabulary has reached the     *)
(* target size (vocab_size - 256 iterations have run) or the token         *)
(* sequence has no adjacent pair at all; no iteration runs after that, and *)
(* every iteration that runs records the selected pair, whose count is at  *)
(* least 1, under the id next_idx held.                                    *)
C5_StopsWhenNoPair ==
    /\ Returned("train") =>
          \/ (step = range_len(vocab_size)
              /\ Cardinality(DOMAIN vocab) >= vocab_size)
          \/ Len(tokens) < 2
    /\ (pc = "train") =>
          /\ step <= range_len(vocab_size)
          /\ Cardinality(DOMAIN vocab) = 256 + step
    /\ (pc = "train" /\ step > 0) =>
          /\ pairs # <<>>
          /\ CountIn(pairs, best_pair) >= 1
          /\ HasKey(merges, best_pair)
          /\ merges[best_pair] = next_idx - 1

(* An iteration recorded a pair that occurred once, and more iterations    *)
(* are allowed.                                                            *)
C5_Witness ==
    /\ pc = "train"
    /\ step > 0
    /\ step < range_len(vocab_size)
    /\ CountIn(pairs, best_pair) = 1
    /\ Len(tokens) >= 2

(* C6: with vocab_size <= 256, train on a fresh tokenizer records no       *)
(* merge and leaves exactly the 256 single-byte vocabulary entries.        *)
C6_NoMergeUpTo256 ==
    (vocab_size <= 256 /\ Len(trained) = 1) =>
        /\ merges = EmptyDict
        /\ DOMAIN vocab = 0..255
        /\ \A i \in 0..255 : vocab[i] = <<i>>

(* train has returned from a corpus that has a repeated pair.              *)
C6_Witness ==
    /\ vocab_size <= 256
    /\ Returned("train")
    /\ ret.arg = AAAA
    /\ merges = EmptyDict
    /\ DOMAIN vocab = 0..255

(* C7: a decode call with an id that is no key of the vocabulary ends      *)
(* with the error, returns no string and changes nothing of the tokenizer. *)
C7_UnknownTokenFatal ==
    [][(/\ pc' = "return"
        /\ ret'.op = "decode"
        /\ pc # "train"
        /\ ret' # ret
        /\ \E i \in 1..Len(ret'.arg) : ~HasKey(vocab, ret'.arg[i]))
       => (/\ ret'.err
           /\ ret'.out = <<>>
           /\ UNCHANGED <<other_objects, vocab_size, vocab, merges, file>>)]_vars

(* decode failed on a trained tokenizer for a list that starts with a      *)
(* known id.                                                               *)
C7_Witness ==
    /\ Returned("decode")
    /\ trained # <<>>
    /\ ret.arg = <<97, 300>>
    /\ ret.err

(* C8: a decode call whose ids are all keys of the vocabulary returns a    *)
(* string of scalar values and no error; the string is the exact decoding  *)
(* of the joined bytes when they are well-formed UTF-8, and holds U+FFFD   *)
(* otherwise.                                                              *)
C8_DecodeFallback ==
    (Returned("decode") /\ \A i \in 1..Len(ret.arg) : HasKey(vocab, ret.arg[i]))
    => /\ ~ret.err
       /\ \A c \in Range(ret.out) : IsScalar(c)
       /\ \/ utf8_encode(ret.out) = Join(vocab, ret.arg)
          \/ REPLACEMENT \in Range(ret.out)

(* decode of a lone lead byte followed by 'a' on a trained tokenizer.      *)
C8_Witness ==
    /\ Returned("decode")
    /\ trained # <<>>
    /\ ret.arg = <<195, 97>>
    /\ ret.out = <<REPLACEMENT, 97>>

(* C9: a step that completes an encode, decode or save call leaves         *)
(* vocab_size, the vocabulary and the merge table as they were.            *)
C9_FrozenState ==
    [][(/\ pc' = "return"
        /\ ret'.op \in {"encode", "decode", "save"})
       => UNCHANGED <<other_objects, vocab_size, vocab, merges>>]_vars

(* After training with merges: the file was saved, then encode and decode  *)
(* ran, and the object is as save wrote it.                                *)
C9_Witness ==
    /\ Returned("decode")
    /\ ret.of # <<>>
    /\ file # <<>>
    /\ merges # EmptyDict
    /\ file[1] = save_state(vocab_size, vocab, merges)

(* C10: a fresh tokenizer with vocab_size 257 trained on "aaaa" has the    *)
(* merge table {(97,97) -> 256} and vocab[256] = [97,97]; encode("aaaa")   *)
(* is [256,256] and decode([256,256]) is "aaaa".                           *)
C10_ScenarioAAAA ==
    (vocab_size = 257 /\ trained = <<AAAA>> /\ pc # "train") =>
        /\ merges = (<<97, 97>> :> 256)
        /\ HasKey(vocab, 256)
        /\ vocab[256] = <<97, 97>>
        /\ (Returned("encode") /\ ret.arg = AAAA) => ret.out = <<256, 256>>
        /\ (Returned("decode") /\ ret.arg = <<256, 256>>) =>
               (~ret.err /\ ret.out = AAAA)

(* The scenario ran to the end: train, encode, decode.                     *)
C10_Witness ==
    /\ vocab_size = 257
    /\ trained = <<AAAA>>
    /\ Returned("decode")
    /\ ret.of = <<AAAA>>
    /\ ret.arg = <<256, 256>>
    /\ ret.out = AAAA

(* C11: a fresh tokenizer with target size 300 trained on the empty        *)
(* corpus: train does not fail (it finds no pair and returns), the         *)
(* vocabulary is exactly the 256 single-byte entries and no merge is       *)
(* recorded.                                                               *)
C11_ScenarioEmptyCorpus ==
    (vocab_size = 300 /\ trained = << <<>> >>) =>
        /\ ret.op = "train" => ~ret.err
        /\ pc = "train" => (step = 0 /\ ENABLED TrainBreak)
        /\ DOMAIN vocab = ByteIds
        /\ \A i \in ByteIds : vocab[i] = <<i>>
        /\ merges = EmptyDict

(* train("") has returned on the fresh tokenizer with target 300.          *)
C11_Witness ==
    /\ vocab_size = 300
    /\ trained = << <<>> >>
    /\ Returned("train")
    /\ Cardinality(DOMAIN vocab) = 256
    /\ merges = EmptyDict

(* C12: train on the empty corpus is a no-op: it does not fail, and when   *)
(* it returns the vocabulary and the merge table are what they were when   *)
(* it was entered, on a tokenizer never trained or trained before.         *)
C12_EmptyCorpusNoOp ==
    (Returned("train") /\ ret.arg = <<>>) =>
        /\ ~ret.err
        /\ vocab = entry.vocab
        /\ merges = entry.merges

(* C13: at every iteration of the train call of a fresh tokenizer and when *)
(* the call returns, vocab[i] is the single byte i for every i in 0..255,  *)
(* no merge maps to an id below 256, and the k merges recorded so far have *)
(* exactly the ids 256..256+k-1, the merge of the latest iteration holding *)
(* the highest.                                                            *)
C13_IdAllocation ==
    (Len(trained) = 1 /\ ret.op = "train") =>
        LET k == Cardinality(DOMAIN merges)
        IN  /\ \A i \in ByteIds : HasKey(vocab, i) /\ vocab[i] = <<i>>
            /\ \A p \in DOMAIN merges : merges[p] >= 256
            /\ {merges[p] : p \in DOMAIN merges} = 256..(255 + k)
            /\ DOMAIN vocab = 0..(255 + k)
            /\ k = step
            /\ next_idx = 256 + k
            /\ step > 0 => (HasKey(merges, best_pair) /\ merges[best_pair] = 255 + step)

(* A training that recorded at least three merges has returned.            *)
C13_Witness ==
    /\ Len(trained) = 1
    /\ Returned("train")
    /\ Cardinality(DOMAIN merges) >= 3
    /\ {merges[p] : p \in DOMAIN merges} = 256..(255 + step)

(* C14: the state save writes holds vocab_size, exactly one entry per      *)
(* vocabulary entry and exactly one per merge, each under its own key and  *)
(* with its value, so distinct ids and distinct pairs never share a key    *)
(* and the vocabulary and the merge table can be rebuilt from the file.    *)
C14_SaveLossless ==
    Returned("save") =>
        /\ file # <<>>
        /\ file[1].vocab_size = vocab_size
        /\ Cardinality(DOMAIN file[1].vocab) = Cardinality(DOMAIN vocab)
        /\ Cardinality(DOMAIN file[1].merges) = Cardinality(DOMAIN merges)
        /\ \A k \in DOMAIN vocab :
               /\ str(k) \in DOMAIN file[1].vocab
               /\ file[1].vocab[str(k)] = vocab[k]
        /\ \A p \in DOMAIN merges :
               /\ pair_key(p) \in DOMAIN file[1].merges
               /\ file[1].merges[pair_key(p)] = merges[p]
        /\ Cardinality({str(k) : k \in DOMAIN vocab}) = Cardinality(DOMAIN vocab)
        /\ Cardinality({pair_key(p) : p \in DOMAIN merges})
               = Cardinality(DOMAIN merges)

(* A tokenizer with several merges has been saved; the first merge of the  *)
(* corpus "aaaa" is in the file under the key "97,97".                     *)
C14_Witness ==
    /\ Returned("save")
    /\ Cardinality(DOMAIN merges) >= 2
    /\ "97,97" \in DOMAIN file[1].merges
    /\ file[1].merges["97,97"] = 256
    /\ "256" \in DOMAIN file[1].vocab
    /\ file[1].vocab["256"] = <<97, 97>>

(* C15: encode of the empty string returns the empty token list, without   *)
(* an error, whatever the tokenizer's state (untrained, or trained with    *)
(* any merge table).                                                       *)
C15_EncodeEmpty ==
    (Returned("encode") /\ ret.arg = <<>>) => (~ret.err /\ ret.out = <<>>)

(* encode("") has returned on a tokenizer whose merge table is not empty.  *)
C15_Witness ==
    /\ Returned("encode")
    /\ ret.arg = <<>>
    /\ ret.out = <<>>
    /\ Cardinality(DOMAIN merges) >= 2

(* C16: every iteration of train records a pair that is adjacent in the    *)
(* token sequence the iteration starts from and that no adjacent pair of   *)
(* that sequence outnumbers; the counts are those of get_stats, one per    *)
(* position at which the pair starts, overlapping positions included.      *)
C16_BestPairMostFrequent ==
    [][(pc = "train" /\ step' = step + 1) =>
          /\ \A k \in 1..Len(pairs') :
                 pairs'[k][2] = Occurrences(tokens, pairs'[k][1])
          /\ Occurrences(tokens, best_pair') >= 1
          /\ \A i \in 1..(Len(tokens) - 1) :
                 Occurrences(tokens, <<tokens[i], tokens[i + 1]>>)
                     <= Occurrences(tokens, best_pair')
          /\ HasKey(merges', best_pair')
          /\ merges'[best_pair'] = next_idx]_vars

(* An iteration has recorded a pair seen twice or more while another pair  *)
(* of the sequence was seen less often.                                    *)
C16_Witness ==
    /\ pc = "train"
    /\ step >= 1
    /\ CountIn(pairs, best_pair) >= 2
    /\ \E k \in 1..Len(pairs) : pairs[k][2] < CountIn(pairs, best_pair)
    /\ merges[best_pair] = next_idx - 1

(* Position i of toks starts a replaced occurrence of the pair: the pair   *)
(* is there and position i - 1 starts no replaced occurrence.              *)
RECURSIVE Matched(_, _, _)
Matched(toks, pair, i) ==
    /\ i >= 1
    /\ i < Len(toks)
    /\ toks[i] = pair[1]
    /\ toks[i + 1] = pair[2]
    /\ ~Matched(toks, pair, i - 1)

(* The first n tokens of toks with every replaced occurrence turned into   *)
(* idx.                                                                    *)
RECURSIVE Replaced(_, _, _, _)
Replaced(toks, pair, idx, n) ==
    IF n = 0 THEN <<>>
    ELSE Replaced(toks, pair, idx, n - 1)
         \o (IF Matched(toks, pair, n) THEN <<idx>>
             ELSE IF Matched(toks, pair, n - 1) THEN <<>>
             ELSE <<toks[n]>>)

(* C17: merge_pair(tokens, (a,b), idx) replaces the occurrences of (a,b)   *)
(* greedily from the left, without overlap: [a,a,a] with (a,a) gives       *)
(* [idx,a]; when idx is not in tokens the result has no adjacent (a,b).    *)
C17_MergePairGreedy ==
    Returned("merge_pair") =>
        LET toks == ret.arg[1]
            pair == ret.arg[2]
            idx  == ret.arg[3]
        IN  /\ ~ret.err
            /\ ret.out = Replaced(toks, pair, idx, Len(toks))
            /\ (toks = <<pair[1], pair[1], pair[1]>> /\ pair[2] = pair[1])
                   => ret.out = <<idx, pair[1]>>
            /\ idx \notin Range(toks) =>
                   \A j \in 1..(Len(ret.out) - 1) :
                       <<ret.out[j], ret.out[j + 1]>> # pair

(* merge_pair([97,97,97], (97,97), 257) has returned [257,97].             *)
C17_Witness ==
    /\ Returned("merge_pair")
    /\ ret.arg = << <<97, 97, 97>>, <<97, 97>>, 257 >>
    /\ ret.out = <<257, 97>>

(* The adjacent pairs of toks that are keys of the merge table m.          *)
MergeablePairs(m, toks) ==
    {<<toks[i], toks[i + 1]>> : i \in 1..(Len(toks) - 1)} \cap DOMAIN m

(* C18: every iteration of encode that changes the tokens applies a pair   *)
(* that is adjacent in the current sequence and whose merge id is the      *)
(* lowest among the adjacent pairs that have a merge, replacing its        *)
(* occurrences from the left; the list returned is the last of these       *)
(* sequences.                                                              *)
C18_EncodeLowestIdFirst ==
    Returned("encode") =>
        LET run == encode_iters(merges, utf8_encode(ret.arg))
        IN  /\ ret.out = run[Len(run)]
            /\ \A k \in 1..(Len(run) - 1) :
                   \E p \in MergeablePairs(merges, run[k]) :
                       /\ \A q \in MergeablePairs(merges, run[k]) :
                              merges[p] <= merges[q]
                       /\ run[k + 1] = Replaced(run[k], p, merges[p], Len(run[k]))

(* An encode of two or more iterations in which the first iteration had    *)
(* the choice between a pair of low id and a pair of higher id standing    *)
(* to its left.                                                            *)
C18_Witness ==
    /\ Returned("encode")
    /\ LET run == encode_iters(merges, utf8_encode(ret.arg))
       IN  /\ Len(run) >= 3
           /\ \E i, j \in 1..(Len(run[1]) - 1) :
                  /\ i < j
                  /\ <<run[1][i], run[1][i + 1]>> \in DOMAIN merges
                  /\ <<run[1][j], run[1][j + 1]>> \in DOMAIN merges
                  /\ merges[<<run[1][j], run[1][j + 1]>>]
                         < merges[<<run[1][i], run[1][i + 1]>>]
                  /\ run[2] = Replaced(run[1], <<run[1][j], run[1][j + 1]>>,
                                       merges[<<run[1][j], run[1][j + 1]>>],
                                       Len(run[1]))

(* C19: the list encode returns has no two adjacent tokens that form a     *)
(* key of the merge table.                                                 *)
C19_EncodeFixpoint ==
    Returned("encode") =>
        /\ ~ret.err
        /\ \A i \in 1..(Len(ret.out) - 1) :
               <<ret.out[i], ret.out[i + 1]>> \notin DOMAIN merges

(* An encode that applied two or more merges has returned a list of two or *)
(* more tokens.                                                            *)
C19_Witness ==
    /\ Returned("encode")
    /\ Len(encode_iters(merges, utf8_encode(ret.arg))) >= 3
    /\ Len(ret.out) >= 2
    /\ MergeablePairs(merges, ret.out) = {}

(* C20: on a tokenizer trained exactly once, whatever the corpus, the      *)
(* vocabulary entries of the tokens of encode(s) join to the UTF-8 bytes   *)
(* of s, and decoding them returns s without an error, for every text s,   *)
(* also one with bytes the corpus never had or a four-byte character.      *)
C20_RoundTripAnyText ==
    (Returned("decode") /\ ret.of # <<>> /\ Len(trained) = 1) =>
        /\ ret.arg = encode(merges, ret.of[1])
        /\ ~ret.err
        /\ Join(vocab, ret.arg) = utf8_encode(ret.of[1])
        /\ ret.out = ret.of[1]

(* A round trip of a text with a four-byte character and with bytes that   *)
(* are not in the corpus, through at least one merge.                      *)
C20_Witness ==
    /\ Returned("decode")
    /\ ret.of # <<>>
    /\ Len(trained) = 1
    /\ 128512 \in Range(ret.of[1])
    /\ BytesOf(ret.of[1]) \ BytesOf(trained[1]) # {}
    /\ Len(ret.arg) < Len(utf8_encode(ret.of[1]))
    /\ ret.out = ret.of[1]

(* C21: on a tokenizer trained exactly once, encode of the corpus returns  *)
(* the token sequence that train held when it finished.                    *)
C21_EncodeReplaysTraining ==
    (Returned("encode") /\ Len(trained) = 1 /\ ret.arg = trained[1]) =>
        (~ret.err /\ ret.out = tokens)

(* The corpus has been encoded after a training of three or more merges.   *)
C21_Witness ==
    /\ Returned("encode")
    /\ Len(trained) = 1
    /\ ret.arg = trained[1]
    /\ Cardinality(DOMAIN merges) >= 3
    /\ Len(tokens) < Len(utf8_encode(trained[1])) - 2
    /\ ret.out = tokens

Max(a, b) == IF a >= b THEN a ELSE b

(* C22: a train call never starts more than max(0, vocab_size - 256)       *)
(* iterations, the vocabulary it builds never holds more than              *)
(* max(256, vocab_size) entries, and every train call that has started     *)
(* returns.                                                                *)
C22_TrainTerminates ==
    /\ [](/\ step <= Max(0, vocab_size - 256)
          /\ Cardinality(DOMAIN vocab) <= Max(256, vocab_size)
          /\ Returned("train") => ~ret.err)
    /\ (pc = "train") ~> Returned("train")

(* A training stopped by the target, with pairs left to merge, has         *)
(* returned.                                                               *)
C22_Witness ==
    /\ Returned("train")
    /\ vocab_size = 257
    /\ step = 1
    /\ Cardinality(DOMAIN vocab) = 257
    /\ ~no_pairs(get_stats(tokens))

(* The step-wise train and the train run in one go agree on a tokenizer    *)
(* trained once.                                                           *)
TrainFreshAgrees ==
    (Len(trained) = 1 /\ pc # "train") =>
        LET f == train_fresh(vocab_size, trained[1])
        IN  vocab = f.vocab /\ merges = f.merges /\ tokens = f.tokens

(* C23: once a train call on a tokenizer trained before has returned, the  *)
(* vocabulary and the merge table are those of a fresh tokenizer of the    *)
(* same vocab_size trained on the last corpus only, encode and decode      *)
(* return what that fresh tokenizer returns, and decoding what encode(s)   *)
(* gave returns s.                                                         *)
C23_HistoryIndependent ==
    (Len(trained) >= 2 /\ pc # "train") =>
        LET f == train_fresh(vocab_size, trained[Len(trained)])
        IN  /\ vocab = f.vocab
            /\ merges = f.merges
            /\ Returned("encode") => ret.out = encode(f.merges, ret.arg)
            /\ Returned("decode") =>
                   /\ ret.err = decode(f.vocab, ret.arg).err
                   /\ ret.out = decode(f.vocab, ret.arg).out
                   /\ ret.of # <<>> => (~ret.err /\ ret.out = ret.of[1])

(* C24: the pair an iteration of train selects is not yet a key of the     *)
(* merge table, the merge table never maps two pairs to one id, and after  *)
(* the training of a fresh tokenizer the merge table has as many entries   *)
(* as the vocabulary has above the 256 bytes.                              *)
C24_NoPairSelectedTwice ==
    /\ [][(pc = "train" /\ step' = step + 1) => ~HasKey(merges, best_pair')]_vars
    /\ [](\A p, q \in DOMAIN merges : p # q => merges[p] # merges[q])
    /\ []((Len(trained) = 1 /\ pc # "train") =>
              Cardinality(DOMAIN merges) = Cardinality(DOMAIN vocab) - 256)

(* The adjacent pair that starts at position i of toks.                    *)
PairAt(toks, i) == <<toks[i], toks[i + 1]>>

(* C25: the pair an iteration of train selects is the pair at the leftmost *)
(* position of the token sequence whose pair has the highest count: every  *)
(* pair that starts further left is less frequent, so the choice is        *)
(* determined by the sequence.                                             *)
C25_LeftmostTieBreak ==
    [][(pc = "train" /\ step' = step + 1) =>
          \E i \in 1..(Len(tokens) - 1) :
              /\ best_pair' = PairAt(tokens, i)
              /\ \A j \in 1..(Len(tokens) - 1) :
                     Occurrences(tokens, PairAt(tokens, j))
                         <= Occurrences(tokens, best_pair')
              /\ \A j \in 1..(i - 1) :
                     Occurrences(tokens, PairAt(tokens, j))
                         < Occurrences(tokens, best_pair')]_vars

(* An iteration had two or more pairs of the highest count, each seen      *)
(* twice, and recorded the one get_stats met first.                        *)
C25_Witness ==
    /\ pc = "train"
    /\ step >= 1
    /\ CountIn(pairs, best_pair) >= 2
    /\ \E k \in 2..Len(pairs) :
           /\ pairs[k][1] # best_pair
           /\ pairs[k][2] = CountIn(pairs, best_pair)
    /\ \A j \in 1..Len(pairs) : pairs[j][2] <= CountIn(pairs, best_pair)
    /\ merges[best_pair] = next_idx - 1

(* The handler of websocket w has returned or raised.                      *)
HandlerEnded(w) == hpc[w] \in {"returned", "raised"}

(* C26: self.clients holds only websockets whose handler is still running: *)
(* once the handler of a websocket has returned or raised, for whatever    *)
(* reason, the websocket is not in clients.                                *)
C26_ClientsHaveRunningHandlers ==
    \A w \in Conns : HandlerEnded(w) => w \notin clients

(* C27: a message that is not valid JSON changes neither sessions nor      *)
(* clients, makes handle_message send the one reply {type: error, error:   *)
(* invalid_json} to the sender and nothing to anyone else, and leaves the  *)
(* handler waiting for the connection's next message.                      *)
C27_InvalidJsonReply ==
    /\ [][\A w \in Conns :
              (/\ Len(received'[w]) = Len(received[w]) + 1
               /\ received'[w][Len(received'[w])].kind \in {"malformed", "undecodable"})
              => /\ UNCHANGED <<clients, sessions>>
                 /\ hpc'[w] = "reply"
                 /\ pending'[w] = <<Reply("error", "", {}, "invalid_json")>>
                 /\ sent' = sent]_vars
    /\ [][\A w \in Conns :
              (/\ hpc[w] = "reply"
               /\ pending[w] = <<Reply("error", "", {}, "invalid_json")>>
               /\ Len(sent'[w]) > Len(sent[w]))
              => /\ sent'[w] = Append(sent[w], Reply("error", "", {}, "invalid_json"))
                 /\ \A x \in Conns \ {w} : sent'[x] = sent[x]
                 /\ hpc'[w] = "iterate"
                 /\ UNCHANGED <<clients, sessions>>]_vars

(* The session_id values of the session.create messages the handlers were  *)
(* given so far.                                                           *)
CreatedIds ==
    {received[w][i].session_id :
        <<w, i>> \in {<<w, i>> \in Conns \X (1..MaxMsgs) :
                         /\ i <= Len(received[w])
                         /\ received[w][i].kind = "session.create"}}

IsPrefix(p, q) == Len(p) <= Len(q) /\ \A i \in 1..Len(p) : p[i] = q[i]

(* C29: no call on the SessionManager and no restart removes a session     *)
(* file or changes the messages it holds other than by appending; an       *)
(* add_message on a session that has a file leaves the file with its       *)
(* earlier messages followed by the new one.                               *)
C29_MessagesNeverLost ==
    [][\A sid \in DOMAIN session_files :
           /\ sid \in DOMAIN session_files'
           /\ IsPrefix(session_files[sid].messages, session_files'[sid].messages)
           /\ (scalls' = scalls + 1 /\ sret'.op = "add_message" /\ sret'.arg = sid)
              => Len(session_files'[sid].messages)
                     = Len(session_files[sid].messages) + 1]_vars

(* C30: a call of advance_to_next_gamma that returns True leaves the file  *)
(* with gamma_level one higher and with next_construction_step replaced by *)
(* the step built in the call, its coherence_target the old target scaled  *)
(* by PHI_INV; a call that returns False leaves the file as it was.        *)
C30_AdvancePersisted ==
    [][(ucalls' = ucalls + 1 /\ uret'.op = "advance_to_next_gamma")
         => IF uret'.out = <<TRUE>>
            THEN /\ index_file'.current_phase.gamma_level
                        = index_file.current_phase.gamma_level + 1
                 /\ index_file'.next_construction_step
                        = next_step(index_file'.current_phase.gamma_level,
                                    index_file.next_construction_step.coherence_target)
                 /\ index_file'.next_construction_step.coherence_target
                        = scale_by_PHI_INV(
                              index_file.next_construction_step.coherence_target)
            ELSE index_file' = index_file]_vars

====
